---- MODULE Spec2Model ----
(***************************************************************************)
(* Privacy Glasses (src/main.ts): the reveal level state machine, the      *)
(* reveal policy shouldRevealLeaf, the idle monitor and the per-view       *)
(* setState hook, as a state machine over the plugin's fields and the      *)
(* classes of the view containers and of the document body.                *)
(*                                                                         *)
(* JavaScript strings that the code searches in (privateDirs, folder       *)
(* paths) are sequences of one-character strings; strings that the code    *)
(* only compares (tags, the marker, class names, levels) are TLA+ strings. *)
(* A call that throws returns "TypeError".                                 *)
(***************************************************************************)
EXTENDS Integers, Sequences, FiniteSets, TLC

----------------------------------------------------------------------------
(* enum Level, enum CssClass *)

HideAll == "hide-all"
HidePrivate == "hide-private"
RevealAll == "reveal-all"
RevealHeadlines == "reveal-headlines"
Level == {HideAll, HidePrivate, RevealAll, RevealHeadlines}

BlurAll == "privacy-glasses-blur-all"
RevealOnHover == "privacy-glasses-reveal-on-hover"
CssRevealAll == "privacy-glasses-reveal-all"
RevealUnderCaret == "privacy-glasses-reveal-under-caret"
CssRevealHeadlines == "privacy-glasses-reveal-headlines"
Reveal == "privacy-glasses-reveal"
IsMdView == "is-md-view"
IsNonMdView == "is-non-md-view"
IsMdViewHeadlinesOnly == "is-md-view-headlines-only"
PrivacyGlassesReveal == "privacy-glasses-reveal"

----------------------------------------------------------------------------
(* Strings as character sequences, and String.prototype.contains *)

S_empty == << >>
S_fin == <<"f", "i", "n">>
S_finance == <<"f", "i", "n", "a", "n", "c", "e">>
S_therapy == <<"t", "h", "e", "r", "a", "p", "y">>
S_work == <<"w", "o", "r", "k">>
S_comma == <<",">>
S_finance_therapy == S_finance \o S_comma \o S_therapy
S_e_t == <<"e", ",", "t">>
S_root == <<"/">>
S_undefined == <<"u", "n", "d", "e", "f", "i", "n", "e", "d">>

\* haystack.contains(needle): needle occurs in haystack as a substring
contains(haystack, needle) ==
    \E i \in 0..(Len(haystack) - Len(needle)) :
        SubSeq(haystack, i + 1, i + Len(needle)) = needle

\* haystack.split(","): the comma-separated entries of a string
RECURSIVE split(_)
split(s) ==
    IF \A i \in 1..Len(s) : s[i] # ","
    THEN <<s>>
    ELSE LET k == CHOOSE i \in 1..Len(s) :
                      s[i] = "," /\ \A j \in 1..(i - 1) : s[j] # ","
         IN  <<SubSeq(s, 1, k - 1)>> \o split(SubSeq(s, k + 1, Len(s)))

----------------------------------------------------------------------------
(* The host's objects: a note's cached metadata, a file, a view *)

\* getFileCache(file): null, or a record whose tags and frontmatter are optional;
\* frontmatter.tags, when present, is an array or something else (a string, null)
NullCache ==
    [exists |-> FALSE, hasTags |-> FALSE, tags |-> << >>, hasFm |-> FALSE,
     fmHasTags |-> FALSE, fmTagsIsArray |-> FALSE, fmTags |-> << >>]

Cache(bodyTags, fm) ==
    [exists |-> TRUE, hasTags |-> bodyTags.has, tags |-> bodyTags.tags,
     hasFm |-> fm.has, fmHasTags |-> fm.hasTags,
     fmTagsIsArray |-> fm.isArray, fmTags |-> fm.tags]

NoBodyTags == [has |-> FALSE, tags |-> << >>]
BodyTags(t) == [has |-> TRUE, tags |-> t]
NoFrontmatter == [has |-> FALSE, hasTags |-> FALSE, isArray |-> FALSE, tags |-> << >>]
FrontmatterNoTags == [has |-> TRUE, hasTags |-> FALSE, isArray |-> FALSE, tags |-> << >>]
FrontmatterTagsNotArray == [has |-> TRUE, hasTags |-> TRUE, isArray |-> FALSE, tags |-> << >>]
FrontmatterTags(t) == [has |-> TRUE, hasTags |-> TRUE, isArray |-> TRUE, tags |-> t]

\* view.file: null, or a TFile with its parent folder's path (parent may be null)
NoFile == [exists |-> FALSE, hasParent |-> FALSE, parentPath |-> << >>, cache |-> NullCache]
TFile(path, cache) == [exists |-> TRUE, hasParent |-> TRUE, parentPath |-> path, cache |-> cache]
TFileNoParent(cache) == [exists |-> TRUE, hasParent |-> FALSE, parentPath |-> << >>, cache |-> cache]

\* Shapes of view objects: which properties the object has
\*   ownFile: "file" is an own property; editorIn: "editor" in view;
\*   editor: view.editor is truthy
MarkdownShape == [ownFile |-> TRUE, editorIn |-> TRUE, editor |-> TRUE]
NoEditorYetShape == [ownFile |-> TRUE, editorIn |-> TRUE, editor |-> FALSE]
FileViewShape == [ownFile |-> TRUE, editorIn |-> FALSE, editor |-> FALSE]
PlainShape == [ownFile |-> FALSE, editorIn |-> FALSE, editor |-> FALSE]
EditorOnlyShape == [ownFile |-> FALSE, editorIn |-> TRUE, editor |-> TRUE]
ViewShapes == {MarkdownShape, NoEditorYetShape, FileViewShape, PlainShape, EditorOnlyShape}

\* wrappers: how many wrappers of hookViewStateChanged are stacked on the view's
\* own setState (0: the view has the prototype's setState only)
View(shape, file, st) ==
    [state |-> st, shape |-> shape, file |-> file, wrappers |-> 0, classes |-> {}]

Unopened == View(PlainShape, NoFile, "unopened")

----------------------------------------------------------------------------
(* Reveal policy *)

isMarkdownFileInfoView(x) == x.shape.ownFile

getFileCache(file) == IF file.exists THEN file.cache ELSE NullCache

Truthy(x) == x # ""

includes(arr, x) == \E i \in 1..Len(arr) : arr[i] = x

\* lines 230-241: "throw" when an `in` or a `.filter` hits a non-object,
\* else the tags gathered from the body and from the front-matter
gatherTags(cache) ==
    IF ~cache.exists THEN [throw |-> TRUE, tags |-> << >>]
    ELSE IF ~cache.hasFm THEN [throw |-> TRUE, tags |-> << >>]
    ELSE IF cache.fmHasTags /\ ~cache.fmTagsIsArray THEN [throw |-> TRUE, tags |-> << >>]
    ELSE [throw |-> FALSE,
          tags |-> (IF cache.hasTags THEN SelectSeq(cache.tags, Truthy) ELSE << >>)
                   \o (IF cache.fmHasTags THEN SelectSeq(cache.fmTags, Truthy) ELSE << >>)]

\* lines 244-251
directoryPolicy(view, s) ==
    IF view.file.exists
       /\ ~contains(s.privateDirs,
                    IF view.file.hasParent THEN view.file.parentPath ELSE S_undefined)
    THEN "true"
    ELSE "false"

\* lines 220-251: the decision at level HidePrivate
hidePrivatePolicy(view, s) ==
    IF ~isMarkdownFileInfoView(view) THEN "true"
    ELSE IF ~view.shape.editorIn THEN "false"
    ELSE IF view.shape.editor /\ Truthy(s.privateNoteMarker)
         THEN LET g == gatherTags(getFileCache(view.file))
              IN  IF g.throw THEN "TypeError"
                  ELSE IF Len(g.tags) > 0
                       THEN (IF includes(g.tags, s.privateNoteMarker) THEN "false" ELSE "true")
                       ELSE directoryPolicy(view, s)
         ELSE directoryPolicy(view, s)

\* mutant: HideAll is not short-circuited and falls into the HidePrivate policy
shouldRevealLeaf_hideAllFallThrough(level, view, s) ==
    IF level = RevealAll THEN "true"
    ELSE IF level = RevealHeadlines THEN "false"
    ELSE hidePrivatePolicy(view, s)

\* mutant: RevealHeadlines is not short-circuited and falls into the HidePrivate policy
shouldRevealLeaf_headlinesFallThrough(level, view, s) ==
    IF level = RevealAll THEN "true"
    ELSE IF level = HideAll THEN "false"
    ELSE hidePrivatePolicy(view, s)

shouldRevealLeaf(level, view, s) ==
    IF level = RevealAll THEN "true"
    ELSE IF level = HideAll \/ level = RevealHeadlines THEN "false"
    ELSE hidePrivatePolicy(view, s)

----------------------------------------------------------------------------
VARIABLES
    currentLevel,   \* this.currentLevel
    settings,       \* this.settings
    lastEventTime,  \* this.lastEventTime (ms)
    revealed,       \* this.revealed: how often each container is in the array
    views,          \* the workspace's views, by instance
    bodyClasses,    \* document.body.classList
    now,            \* performance.now() (ms)
    layoutReady,    \* the onLayoutReady callback has run
    running,        \* the wrapper that is between its before-hook and the original
    promises,       \* transitions whose promise has not resolved yet
    timers,         \* pending setTimeout callbacks of onAfterViewStateChange
    op,             \* the handler that ran last
    ret,            \* what the last direct call of shouldRevealLeaf returned
    inputSeen,      \* a mousedown or keydown has been observed since load
    idleForced,     \* the idle monitor set the level and no handler has set it since
    idleInFlight    \* ... and it did so while the last transition was in flight

vars == <<currentLevel, settings, lastEventTime, revealed, views, bodyClasses, now,
          layoutReady, running, promises, timers, op, ret, inputSeen, idleForced,
          idleInFlight>>

\* the view instances the host creates, in workspace order
ViewIds == {1, 2}
\* multiplicities of a container in this.revealed above this are not told apart
MaxTracked == 1
\* transitions whose after-hook or delayed update is still to run
MaxInFlight == 1
\* how far the clock runs, in steps of ClockStep
MaxClockSteps == 3

TickIntervalMs == 1000
MsPerSecond == 1000
ClockStep == TickIntervalMs \div 2

\* wrapper stacks deeper than this are not told apart
MaxWrappers == 2

\* what the original setState returns: a promise, a value that is not awaitable,
\* or nothing
Promise == "promise"
Value == "value"
Undefined == "undefined"
Results == {Promise, Value, Undefined}

\* no wrapper is running
NoRun == [view |-> 0, file |-> NoFile, result |-> Undefined, before |-> 0]

DEFAULT_SETTINGS ==
    [blurOnStartup |-> HidePrivate, blurOnIdleTimeoutSeconds |-> -1,
     hoverToReveal |-> TRUE, revealUnderCaret |-> FALSE,
     privateDirs |-> S_empty, privateNoteMarker |-> "#private"]

----------------------------------------------------------------------------
(* The reveal policy on its own: one view, inputs drawn from bounded sets *)

PolicyBodyTags ==
    {NoBodyTags, BodyTags(<< >>), BodyTags(<<"#work">>), BodyTags(<<"#private">>),
     BodyTags(<<"#work", "#private">>)}
PolicyFrontmatter ==
    {NoFrontmatter, FrontmatterNoTags, FrontmatterTagsNotArray, FrontmatterTags(<< >>),
     FrontmatterTags(<<"work">>), FrontmatterTags(<<"#private">>), FrontmatterTags(<<"">>)}
PolicyCaches == {NullCache} \cup {Cache(b, f) : b \in PolicyBodyTags, f \in PolicyFrontmatter}
PolicyFolders == {S_fin, S_finance, S_therapy, S_work, S_e_t, S_root}
PolicyFiles ==
    {NoFile} \cup {TFile(p, c) : p \in PolicyFolders, c \in PolicyCaches}
             \cup {TFileNoParent(Cache(NoBodyTags, FrontmatterNoTags))}
PolicyDirs == {S_empty, S_fin, S_finance, S_finance_therapy}
PolicyMarkers == {"", "#private"}

PolicyViews ==
    {View(sh, f, "open") : sh \in {MarkdownShape, NoEditorYetShape, FileViewShape},
                           f \in PolicyFiles}
    \cup {View(sh, NoFile, "open") : sh \in {PlainShape, EditorOnlyShape}}

InitPolicy ==
    /\ currentLevel \in Level
    /\ \E d \in PolicyDirs, m \in PolicyMarkers :
          settings = [DEFAULT_SETTINGS EXCEPT !.privateDirs = d, !.privateNoteMarker = m]
    /\ \E w \in PolicyViews : views = [v \in ViewIds |-> IF v = 1 THEN w ELSE Unopened]
    /\ lastEventTime = 1
    /\ revealed = [v \in ViewIds |-> 0]
    /\ bodyClasses = {}
    /\ now = 1
    /\ layoutReady = FALSE
    /\ running = NoRun
    /\ promises = 0
    /\ timers = 0
    /\ op = "onload"
    /\ ret = "none"
    /\ inputSeen = FALSE
    /\ idleForced = FALSE
    /\ idleInFlight = FALSE

callShouldRevealLeaf(v) ==
    /\ views[v].state = "open"
    /\ ret' = shouldRevealLeaf(currentLevel, views[v], settings)
    /\ op' = "shouldRevealLeaf"
    /\ UNCHANGED <<currentLevel, settings, lastEventTime, revealed, views, bodyClasses,
                   now, layoutReady, running, promises, timers, inputSeen, idleForced,
                   idleInFlight>>

NextPolicy == \E v \in ViewIds : callShouldRevealLeaf(v)

SpecPolicy == InitPolicy /\ [][NextPolicy]_vars

----------------------------------------------------------------------------
(* Style applier *)

\* mutant: the reveal class is toggled, not added
updateLeafViewStyle_toggle(view, level, s) ==
    LET isMd == isMarkdownFileInfoView(view) /\ view.shape.editor
        cleared == view.classes \ {IsMdView, IsNonMdView, IsMdViewHeadlinesOnly}
        marked == IF isMd /\ level = RevealHeadlines THEN cleared \cup {IsMdViewHeadlinesOnly}
                  ELSE IF isMd THEN cleared \cup {IsMdView}
                  ELSE cleared \cup {IsNonMdView}
        shouldReveal == shouldRevealLeaf(level, view, s)
    IN  IF shouldReveal = "TypeError"
        THEN [view |-> [view EXCEPT !.classes = marked], push |-> FALSE, throw |-> TRUE]
        ELSE IF shouldReveal = "true"
        THEN [view |-> [view EXCEPT !.classes =
                           IF PrivacyGlassesReveal \in marked
                           THEN marked \ {PrivacyGlassesReveal}
                           ELSE marked \cup {PrivacyGlassesReveal}],
              push |-> TRUE, throw |-> FALSE]
        ELSE [view |-> [view EXCEPT !.classes = marked \ {PrivacyGlassesReveal}],
              push |-> FALSE, throw |-> FALSE]

\* lines 254-274: the view after the call, whether its container was pushed to
\* this.revealed, and whether shouldRevealLeaf threw (after the md classes were set)
updateLeafViewStyle(view, level, s) ==
    LET isMd == isMarkdownFileInfoView(view) /\ view.shape.editor
        cleared == view.classes \ {IsMdView, IsNonMdView, IsMdViewHeadlinesOnly}
        marked == IF isMd /\ level = RevealHeadlines THEN cleared \cup {IsMdViewHeadlinesOnly}
                  ELSE IF isMd THEN cleared \cup {IsMdView}
                  ELSE cleared \cup {IsNonMdView}
        shouldReveal == shouldRevealLeaf(level, view, s)
    IN  IF shouldReveal = "TypeError"
        THEN [view |-> [view EXCEPT !.classes = marked], push |-> FALSE, throw |-> TRUE]
        ELSE IF shouldReveal = "true"
        THEN [view |-> [view EXCEPT !.classes = marked \cup {PrivacyGlassesReveal}],
              push |-> TRUE, throw |-> FALSE]
        ELSE [view |-> [view EXCEPT !.classes = marked \ {PrivacyGlassesReveal}],
              push |-> FALSE, throw |-> FALSE]

\* this.revealed.push(view.containerEl)
pushRevealed(rev, v) ==
    [rev EXCEPT ![v] = IF @ < MaxTracked THEN @ + 1 ELSE MaxTracked]

\* lines 281-285: iterateAllLeaves in workspace order; a throw ends the iteration
RECURSIVE updateLeavesFrom(_, _, _, _, _)
updateLeavesFrom(i, vs, rev, level, s) ==
    IF i \notin ViewIds THEN [views |-> vs, revealed |-> rev, throw |-> FALSE]
    ELSE IF vs[i].state # "open" THEN updateLeavesFrom(i + 1, vs, rev, level, s)
    ELSE LET r == updateLeafViewStyle(vs[i], level, s)
             vs2 == [vs EXCEPT ![i] = r.view]
         IN  IF r.throw THEN [views |-> vs2, revealed |-> rev, throw |-> TRUE]
             ELSE updateLeavesFrom(i + 1, vs2,
                                   IF r.push THEN pushRevealed(rev, i) ELSE rev, level, s)

updateLeavesStyle(vs, rev, level, s) == updateLeavesFrom(1, vs, rev, level, s)

\* mutant: the reveal-all class is left on the body
removeAllClasses_keepsRevealAll(body) ==
    body \ {BlurAll, RevealOnHover, RevealUnderCaret, CssRevealHeadlines}

\* lines 298-300
removeAllClasses(body) ==
    body \ {BlurAll, RevealOnHover, CssRevealAll, RevealUnderCaret, CssRevealHeadlines}

\* lines 302-314
setClassToDocumentBody(body, level) ==
    IF level = HideAll THEN body \cup {BlurAll}
    ELSE IF level = RevealAll THEN body \cup {CssRevealAll}
    ELSE IF level = RevealHeadlines THEN body \cup {CssRevealHeadlines}
    ELSE body

\* lines 287-296
updateGlobalRevealStyle(body, level, s) ==
    setClassToDocumentBody(removeAllClasses(body), level)
        \cup (IF s.hoverToReveal THEN {RevealOnHover} ELSE {})
        \cup (IF s.revealUnderCaret THEN {RevealUnderCaret} ELSE {})

\* lines 276-279: the body is not touched when updateLeavesStyle throws
updateLeavesAndGlobalReveals(vs, rev, body, level, s) ==
    LET r == updateLeavesStyle(vs, rev, level, s)
    IN  [views |-> r.views, revealed |-> r.revealed, throw |-> r.throw,
         body |-> IF r.throw THEN body ELSE updateGlobalRevealStyle(body, level, s)]

----------------------------------------------------------------------------
(* View lifecycle hook *)

\* mutant: the own setState property is not recognised
isHooked_never(view) == FALSE

\* lines 486-490: setState is an own property of the view and a function
isHooked(view) == view.wrappers > 0

\* lines 492-515: the view's own setState becomes a wrapper around the setState
\* it had
hookViewStateChanged(view) ==
    [view EXCEPT !.wrappers = IF @ < MaxWrappers THEN @ + 1 ELSE MaxWrappers]

\* lines 153-164: every view of the workspace that is not hooked is hooked
ensureLeavesHooked(vs) ==
    [v \in ViewIds |->
        IF vs[v].state = "open" /\ ~isHooked(vs[v])
        THEN hookViewStateChanged(vs[v])
        ELSE vs[v]]

\* mutant: only the container of the view in transition is stripped
onBeforeViewStateChange_onlyOwn(vs, rev, l) ==
    [v \in ViewIds |->
        IF v = l /\ rev[v] > 0
        THEN [vs[v] EXCEPT !.classes = @ \ {Reveal}]
        ELSE vs[v]]

\* lines 139-143: the reveal class is removed from every container in this.revealed
onBeforeViewStateChange(vs, rev, l) ==
    [v \in ViewIds |->
        IF rev[v] > 0
        THEN [vs[v] EXCEPT !.classes = @ \ {Reveal}]
        ELSE vs[v]]

----------------------------------------------------------------------------
(* Idle monitor *)

\* mutant: the disabled (negative) timeout is not checked
idleCheckSkipped_noDisable(s, level, last) == level = HideAll \/ last = 0

\* lines 177-185: the early returns of checkIdleTimeout
idleCheckSkipped(s, level, last) ==
    \/ s.blurOnIdleTimeoutSeconds < 0
    \/ level = HideAll
    \/ last = 0

\* mutant: the threshold itself does not count as idle
idleElapsed_strict(t, last, s) ==
    (t - last) > s.blurOnIdleTimeoutSeconds * MsPerSecond

\* lines 186-188: (now - lastEventTime) / 1000 >= blurOnIdleTimeoutSeconds
idleElapsed(t, last, s) ==
    (t - last) >= s.blurOnIdleTimeoutSeconds * MsPerSecond

----------------------------------------------------------------------------
(* The plugin as a state machine *)

\* performance.now() when onload returns: some time after the time origin
LoadTime == TickIntervalMs

\* mutant: onload leaves lastEventTime unset
onloadLastEventTime_unset(t) == 0

\* line 134: this.lastEventTime = performance.now(), at the end of onload
onloadLastEventTime(t) == t

\* the notes the views of the workspace show
PublicNote == TFile(S_work, Cache(BodyTags(<<"#work">>), FrontmatterNoTags))
PrivateNote == TFile(S_finance, Cache(NoBodyTags, FrontmatterNoTags))
BareNote == TFile(S_work, Cache(NoBodyTags, NoFrontmatter))
Files == {PublicNote, PrivateNote, BareNote}
Shapes == {MarkdownShape, PlainShape}
IdleTimeouts == {-1, 0, 1}

\* settings as loadSettings leaves them (lines 199-202)
LoadedSettings ==
    {[DEFAULT_SETTINGS EXCEPT !.blurOnIdleTimeoutSeconds = t,
                              !.privateDirs = S_finance_therapy] : t \in IdleTimeouts}

Closed == View(PlainShape, NoFile, "closed")

\* the state when onload has returned (lines 40-43, 45-135)
Init ==
    /\ currentLevel = HidePrivate
    /\ settings \in {l \in LoadedSettings : l.blurOnIdleTimeoutSeconds = 0}
    /\ now = LoadTime
    /\ lastEventTime = onloadLastEventTime(now)
    /\ revealed = [v \in ViewIds |-> 0]
    /\ views = [v \in ViewIds |-> Unopened]
    /\ bodyClasses = {}
    /\ layoutReady = FALSE
    /\ running = NoRun
    /\ promises = 0
    /\ timers = 0
    /\ op = "onload"
    /\ ret = "none"
    /\ inputSeen = FALSE
    /\ idleForced = FALSE
    /\ idleInFlight = FALSE

\* no handler is on the stack: the event loop may start one
LoopFree == running = NoRun

\* lines 57-105: a ribbon icon or a command sets the level
setLevel(l) ==
    /\ LoopFree
    /\ LET r == updateLeavesAndGlobalReveals(views, revealed, bodyClasses, l, settings)
       IN  /\ currentLevel' = l
           /\ views' = r.views
           /\ revealed' = r.revealed
           /\ bodyClasses' = r.body
    /\ op' = "setLevel"
    /\ idleForced' = FALSE
    /\ idleInFlight' = FALSE
    /\ UNCHANGED <<settings, lastEventTime, now, layoutReady, running, promises, timers,
                   ret, inputSeen>>

\* lines 114-116, 176-192: the interval's tick
checkIdleTimeout ==
    /\ LoopFree
    /\ op' = "checkIdleTimeout"
    /\ IF ~idleCheckSkipped(settings, currentLevel, lastEventTime)
          /\ idleElapsed(now, lastEventTime, settings)
       THEN LET r == updateLeavesAndGlobalReveals(views, revealed, bodyClasses,
                                                  HideAll, settings)
            IN  /\ currentLevel' = HideAll
                /\ views' = r.views
                /\ revealed' = r.revealed
                /\ bodyClasses' = r.body
                /\ idleForced' = TRUE
                /\ idleInFlight' = (promises + timers > 0)
       ELSE UNCHANGED <<currentLevel, views, revealed, bodyClasses, idleForced,
                        idleInFlight>>
    /\ UNCHANGED <<settings, lastEventTime, now, layoutReady, running, promises, timers,
                   ret, inputSeen>>

\* mutant: an input event also brings the startup level back
domActivityEvent_restoresLevel(timeStamp) ==
    /\ LoopFree
    /\ layoutReady
    /\ lastEventTime' = timeStamp
    /\ inputSeen' = TRUE
    /\ currentLevel' = settings.blurOnStartup
    /\ op' = "other"
    /\ UNCHANGED <<settings, revealed, views, bodyClasses, now, layoutReady,
                   running, promises, timers, ret, idleForced, idleInFlight>>

\* lines 166-172: mousedown or keydown, recorded with the event's own timestamp;
\* the listeners exist once onLayoutReady has registered them
domActivityEvent(timeStamp) ==
    /\ LoopFree
    /\ layoutReady
    /\ lastEventTime' = timeStamp
    /\ inputSeen' = TRUE
    /\ op' = "other"
    /\ UNCHANGED <<currentLevel, settings, revealed, views, bodyClasses, now, layoutReady,
                   running, promises, timers, ret, idleForced, idleInFlight>>

\* time passes
advanceClock ==
    /\ LoopFree
    /\ now + ClockStep <= LoadTime + MaxClockSteps * ClockStep
    /\ now' = now + ClockStep
    /\ op' = "other"
    /\ UNCHANGED <<currentLevel, settings, lastEventTime, revealed, views, bodyClasses,
                   layoutReady, running, promises, timers, ret, inputSeen, idleForced,
                   idleInFlight>>

\* lines 118-124: a throw of updateLeavesAndGlobalReveals ends the callback
\* before ensureLeavesHooked
onLayoutReady ==
    /\ LoopFree
    /\ ~layoutReady
    /\ layoutReady' = TRUE
    /\ LET r == updateLeavesAndGlobalReveals(views, revealed, bodyClasses,
                                             settings.blurOnStartup, settings)
       IN  /\ currentLevel' = settings.blurOnStartup
           /\ views' = IF r.throw THEN r.views ELSE ensureLeavesHooked(r.views)
           /\ revealed' = r.revealed
           /\ bodyClasses' = r.body
    /\ op' = "other"
    /\ idleForced' = FALSE
    /\ idleInFlight' = FALSE
    /\ UNCHANGED <<settings, lastEventTime, now, running, promises, timers, ret, inputSeen>>

\* lines 130-133: leaf is the new active view, or 0 when there is none (e is null
\* and e.view throws after ensureLeavesHooked)
activeLeafChange(leaf) ==
    /\ LoopFree
    /\ leaf # 0 => views[leaf].state = "open"
    /\ LET hooked == ensureLeavesHooked(views)
       IN  IF leaf = 0
           THEN views' = hooked /\ UNCHANGED revealed
           ELSE LET r == updateLeafViewStyle(hooked[leaf], currentLevel, settings)
                IN  /\ views' = [hooked EXCEPT ![leaf] = r.view]
                    /\ revealed' = IF r.push THEN pushRevealed(revealed, leaf) ELSE revealed
    /\ op' = "activeLeafChange"
    /\ UNCHANGED <<currentLevel, settings, lastEventTime, bodyClasses, now, layoutReady,
                   running, promises, timers, ret, inputSeen, idleForced,
                   idleInFlight>>

\* the host opens a view (a new pane, a split, a window): a new instance, with its
\* own container and the prototype's setState
openView(v, shape, file) ==
    /\ LoopFree
    /\ views[v].state = "unopened"
    /\ \A u \in ViewIds : u < v => views[u].state # "unopened"
    /\ views' = [views EXCEPT ![v] = View(shape, IF shape.ownFile THEN file ELSE NoFile,
                                          "open")]
    /\ op' = "other"
    /\ UNCHANGED <<currentLevel, settings, lastEventTime, revealed, bodyClasses, now,
                   layoutReady, running, promises, timers, ret, inputSeen, idleForced,
                   idleInFlight>>

\* the host closes a view: it leaves the workspace (its container stays in
\* this.revealed)
closeView(v) ==
    /\ LoopFree
    /\ views[v].state = "open"
    /\ views' = [views EXCEPT ![v] = Closed]
    /\ op' = "other"
    /\ UNCHANGED <<currentLevel, settings, lastEventTime, revealed, bodyClasses, now,
                   layoutReady, running, promises, timers, ret, inputSeen, idleForced,
                   idleInFlight>>

\* the original setState of a view: the view shows another file
originalSetState(view, file) ==
    IF view.shape.ownFile THEN [view EXCEPT !.file = file] ELSE view

\* lines 500-501: the host calls setState of a view that has the wrapper; every
\* wrapper on the view runs the before-hook, and the original is about to be called
wrapperBefore(v, file, result) ==
    /\ LoopFree
    /\ views[v].state = "open"
    /\ views[v].wrappers > 0
    /\ promises + timers < MaxInFlight
    /\ views' = onBeforeViewStateChange(views, revealed, v)
    /\ running' = [view |-> v, file |-> file, result |-> result,
                   before |-> views[v].wrappers]
    /\ idleInFlight' = FALSE
    /\ op' = "other"
    /\ UNCHANGED <<currentLevel, settings, lastEventTime, revealed, bodyClasses, now,
                   layoutReady, promises, timers, ret, inputSeen, idleForced>>

\* lines 502-511: the original runs with the view as receiver and the caller's
\* arguments. Reading r.then of a result that is undefined throws, and the wrapper
\* neither runs the after-hook nor returns; a promise defers the after-hook to its
\* completion; any other result runs the after-hook at once (lines 145-151: the
\* timer is set and the views are hooked) and the wrapper returns the result
wrapperOriginal ==
    /\ ~LoopFree
    /\ LET v == running.view
           after == [views EXCEPT ![v] = originalSetState(@, running.file)]
       IN  IF running.result = Undefined
           THEN /\ views' = after
                /\ op' = "setStateThrew"
                /\ UNCHANGED <<promises, timers>>
           ELSE IF running.result = Promise
           THEN /\ views' = after
                /\ promises' = promises + running.before
                /\ op' = "setState"
                /\ UNCHANGED timers
           ELSE /\ views' = ensureLeavesHooked(after)
                /\ timers' = timers + running.before
                /\ op' = "setState"
                /\ UNCHANGED promises
    /\ running' = NoRun
    /\ UNCHANGED <<currentLevel, settings, lastEventTime, revealed, bodyClasses, now,
                   layoutReady, ret, inputSeen, idleForced,
                   idleInFlight>>

\* the host calls setState of a view that is not hooked (yet): the original alone
setStateUnhooked(v, file) ==
    /\ LoopFree
    /\ views[v].state = "open"
    /\ views[v].wrappers = 0
    /\ views' = [views EXCEPT ![v] = originalSetState(@, file)]
    /\ op' = "other"
    /\ UNCHANGED <<currentLevel, settings, lastEventTime, revealed, bodyClasses, now,
                   layoutReady, running, promises, timers, ret, inputSeen, idleForced,
                   idleInFlight>>

\* lines 504-506, 145-151: a transition's promise resolves and the after-hook runs
promiseResolved ==
    /\ LoopFree
    /\ promises > 0
    /\ promises' = promises - 1
    /\ timers' = timers + 1
    /\ views' = ensureLeavesHooked(views)
    /\ op' = "other"
    /\ UNCHANGED <<currentLevel, settings, lastEventTime, revealed, bodyClasses, now,
                   layoutReady, running, ret, inputSeen, idleForced,
                   idleInFlight>>

\* lines 147-149: the settling delay is over and updateLeavesStyle runs
timerFired ==
    /\ LoopFree
    /\ timers > 0
    /\ timers' = timers - 1
    /\ LET r == updateLeavesStyle(views, revealed, currentLevel, settings)
       IN  /\ views' = r.views
           /\ revealed' = r.revealed
    /\ op' = "timerFired"
    /\ UNCHANGED <<currentLevel, settings, lastEventTime, bodyClasses, now, layoutReady,
                   running, promises, ret, inputSeen, idleForced,
                   idleInFlight>>

\* the view lifecycle with the level actions and the idle tick; the clock stands
\* still, so a tick finds the timeout elapsed exactly when the timeout is 0
Next ==
    \/ \E l \in Level : setLevel(l)
    \/ checkIdleTimeout
    \/ onLayoutReady
    \/ \E leaf \in {0} \cup ViewIds : activeLeafChange(leaf)
    \/ \E v \in ViewIds, shape \in Shapes, file \in Files : openView(v, shape, file)
    \/ \E v \in ViewIds : closeView(v)
    \/ \E v \in ViewIds, file \in Files, result \in Results : wrapperBefore(v, file, result)
    \/ wrapperOriginal
    \/ \E v \in ViewIds, file \in Files : setStateUnhooked(v, file)
    \/ promiseResolved
    \/ timerFired

Spec == Init /\ [][Next]_vars

\* the view lifecycle on its own, at the level and with the settings of startup.
\* The original follows the before-hook in the same call, a timer that is set
\* fires, and the promise of a transition that completes resolves: these steps
\* are not postponed forever
NextHook ==
    \/ onLayoutReady
    \/ \E v \in ViewIds, shape \in Shapes, file \in Files : openView(v, shape, file)
    \/ \E v \in ViewIds : closeView(v)
    \/ \E v \in ViewIds, file \in Files, result \in Results : wrapperBefore(v, file, result)
    \/ wrapperOriginal
    \/ promiseResolved
    \/ timerFired

SpecLive ==
    /\ Init
    /\ [][NextHook]_vars
    /\ WF_vars(wrapperOriginal)
    /\ WF_vars(promiseResolved)
    /\ WF_vars(timerFired)

\* the idle monitor with the clock and the input events, over views that open and
\* are re-evaluated but do not change their file
InitIdle ==
    /\ settings \in LoadedSettings
    /\ now = LoadTime
    /\ lastEventTime = onloadLastEventTime(now)
    /\ currentLevel = HidePrivate
    /\ revealed = [v \in ViewIds |-> 0]
    /\ views = [v \in ViewIds |-> Unopened]
    /\ bodyClasses = {}
    /\ layoutReady = FALSE
    /\ running = NoRun
    /\ promises = 0
    /\ timers = 0
    /\ op = "onload"
    /\ ret = "none"
    /\ inputSeen = FALSE
    /\ idleForced = FALSE
    /\ idleInFlight = FALSE

NextIdle ==
    \/ \E l \in Level : setLevel(l)
    \/ checkIdleTimeout
    \/ \E latency \in {0, ClockStep} :
          now - latency >= lastEventTime /\ domActivityEvent(now - latency)
    \/ advanceClock
    \/ onLayoutReady
    \/ \E v \in ViewIds, shape \in Shapes, file \in Files : openView(v, shape, file)

SpecIdle == InitIdle /\ [][NextIdle]_vars

\* The settings tab. Each of the three handlers is registered as
\*   onChange((value) => async function() { ... })
\* so that a change of the control calls the arrow function, which builds the
\* async function and returns it; nobody calls what it returns, and its body
\* (the assignment, saveSettings, the re-evaluation) never runs.

\* lines 408-411: the startup level dropdown changes to value
onChangeBlurOnStartup(value) ==
    /\ LoopFree
    /\ value # settings.blurOnStartup
    /\ op' = "onChangeBlurOnStartup"
    /\ UNCHANGED <<currentLevel, settings, lastEventTime, revealed, views, bodyClasses,
                   now, layoutReady, running, promises, timers, ret, inputSeen, idleForced,
                   idleInFlight>>

\* lines 439-444: the private directories text changes to value
onChangePrivateDirs(value) ==
    /\ LoopFree
    /\ value # settings.privateDirs
    /\ op' = "onChangePrivateDirs"
    /\ UNCHANGED <<currentLevel, settings, lastEventTime, revealed, views, bodyClasses,
                   now, layoutReady, running, promises, timers, ret, inputSeen, idleForced,
                   idleInFlight>>

\* lines 462-466: the private note marker text changes to value
onChangePrivateNoteMarker(value) ==
    /\ LoopFree
    /\ value # settings.privateNoteMarker
    /\ op' = "onChangePrivateNoteMarker"
    /\ UNCHANGED <<currentLevel, settings, lastEventTime, revealed, views, bodyClasses,
                   now, layoutReady, running, promises, timers, ret, inputSeen, idleForced,
                   idleInFlight>>

\* the settings tab with the level actions, over views that open and are
\* re-evaluated
NextSettings ==
    \/ \E value \in Level : onChangeBlurOnStartup(value)
    \/ \E value \in PolicyDirs : onChangePrivateDirs(value)
    \/ \E value \in PolicyMarkers : onChangePrivateNoteMarker(value)
    \/ \E l \in Level : setLevel(l)
    \/ onLayoutReady
    \/ \E leaf \in {0} \cup ViewIds : activeLeafChange(leaf)
    \/ \E v \in ViewIds, shape \in Shapes, file \in Files : openView(v, shape, file)

SpecSettings == InitIdle /\ [][NextSettings]_vars

----------------------------------------------------------------------------
(* Claims about the view lifecycle hook, checked under Spec *)

OpenViews == {v \in ViewIds : views[v].state = "open"}

\* C1: when the wrapper of a hooked view has run its before-hook and the original
\* transition logic starts, no open view's container carries the reveal class,
\* whatever level actions, idle ticks, active-leaf changes and transitions came before.
C1_NoRevealWhenOriginalStarts ==
    running # NoRun => \A v \in OpenViews : Reveal \notin views[v].classes

\* the original is about to run in one view while another open view, which was
\* revealed before and which the policy reveals, has been stripped
C1_Witness ==
    /\ running # NoRun
    /\ \E v \in OpenViews :
          /\ v # running.view
          /\ revealed[v] > 0
          /\ shouldRevealLeaf(currentLevel, views[v], settings) = "true"
          /\ Reveal \notin views[v].classes

\* a wrapper call starts (its before-hooks run), the original returns
WrapperStarts == running = NoRun /\ running' # NoRun
OriginalRan == running # NoRun /\ running' = NoRun

\* C11: a view's setState is wrapped at most once, however often
\* ensureLeavesHooked runs against it: no view ever carries more than one wrapper,
\* one call of the view's setState runs the before-hook once, and a call whose
\* wrapper returns runs or schedules the after-hook once.
C11_WrappedAtMostOnce ==
    [][/\ \A v \in ViewIds : views'[v].wrappers <= 1
       /\ WrapperStarts => running'.before = 1
       /\ (OriginalRan /\ op' = "setState") =>
              promises' + timers' = promises + timers + 1]_vars

\* a transition of a hooked view has just run its after-hook, whose
\* ensureLeavesHooked found both open views hooked already
C11_Witness ==
    /\ op = "setState"
    /\ timers > 0
    /\ layoutReady
    /\ \A v \in ViewIds : views[v].state = "open" /\ views[v].wrappers = 1

\* C17: every call of a hooked view's setState runs the before-hook, then the
\* original, then the after-hook exactly once (when the promise resolves if the
\* result is a promise, at once for any other result), and the wrapper returns the
\* original's result to the caller.
C17_WrapperOrderAndResult ==
    [][/\ WrapperStarts => running'.before = 1
       /\ OriginalRan =>
              /\ op' = "setState"
              /\ IF running.result = Promise
                 THEN promises' = promises + 1 /\ timers' = timers
                 ELSE promises' = promises /\ timers' = timers + 1
       /\ promises' < promises => promises' = promises - 1 /\ timers' = timers + 1]_vars

\* C12: the before-hook empties this.revealed, so that no container is tracked
\* when the original transition logic runs.
C12_RevealedEmptyWhenOriginalRuns ==
    running # NoRun => \A v \in ViewIds : revealed[v] = 0

\* the step is the layout-ready callback, an active-leaf-change event or an
\* after-hook (the only code that sets the timer)
HookingEvent ==
    \/ ~layoutReady /\ layoutReady'
    \/ op' = "activeLeafChange"
    \/ timers' > timers

\* C19: after layout-ready, after every active-leaf-change event and after every
\* after-hook, every view in the workspace is hooked, the views opened since the
\* previous such event included.
C19_AllViewsHookedAfterEvents ==
    [][HookingEvent =>
          \A v \in ViewIds : views'[v].state = "open" => isHooked(views'[v])]_vars

\* C18 (checked under SpecLive): every call of a hooked view's setState is
\* eventually followed by the delayed run of updateLeavesStyle.
C18_TransitionLeadsToUpdate ==
    (running # NoRun) ~> (op = "timerFired")

\* C18, what the delayed update establishes: once it has run, every open view's
\* container carries the reveal class if and only if shouldRevealLeaf is true for
\* the view's file and the level at that time.
C18_DelayedUpdateLeavesViewsConsistent ==
    [][op' = "timerFired" =>
          \A v \in ViewIds :
             views'[v].state = "open" =>
                (Reveal \in views'[v].classes
                   <=> shouldRevealLeaf(currentLevel', views'[v], settings') = "true")]_vars

\* C20: when an idle tick has forced the level to HideAll while a transition was
\* in flight (its promise or its timer pending), and no handler has set the level
\* since, then after the transition's delayed update has run the level is still
\* HideAll and no open view's container carries the reveal class.
C20_PendingUpdateKeepsIdleHide ==
    [][(op' = "timerFired" /\ idleInFlight) =>
          /\ currentLevel' = HideAll
          /\ \A v \in ViewIds :
                views'[v].state = "open" => Reveal \notin views'[v].classes]_vars

\* the delayed update of a transition has run after the idle monitor forced
\* HideAll during the flight, over a view that had been revealed before and that
\* the HidePrivate policy would reveal
C20_Witness ==
    /\ op = "timerFired"
    /\ idleInFlight
    /\ \E v \in OpenViews :
          /\ revealed[v] > 0
          /\ hidePrivatePolicy(views[v], settings) = "true"
          /\ Reveal \notin views[v].classes

----------------------------------------------------------------------------
(* Claims about the style applier, checked under Spec *)

LevelClasses == {BlurAll, CssRevealAll, CssRevealHeadlines}
LevelClassOf(level) ==
    IF level = HideAll THEN {BlurAll}
    ELSE IF level = RevealAll THEN {CssRevealAll}
    ELSE IF level = RevealHeadlines THEN {CssRevealHeadlines}
    ELSE {}

\* the step is a level action, a tick that finds the timeout elapsed, or the
\* layout-ready callback: the handlers that call updateLeavesAndGlobalReveals
AppliesStyle ==
    \/ op' = "setLevel"
    \/ /\ op' = "checkIdleTimeout"
       /\ ~idleCheckSkipped(settings, currentLevel, lastEventTime)
       /\ idleElapsed(now, lastEventTime, settings)
    \/ ~layoutReady /\ layoutReady'

\* ... and updateLeavesStyle did not throw, so that updateGlobalRevealStyle ran
GlobalRevealStyleRan ==
    AppliesStyle /\ ~updateLeavesStyle(views, revealed, currentLevel', settings).throw

\* C13: after every run of updateGlobalRevealStyle the body carries the level class
\* of the current level and no other level class (blur-all at HideAll, reveal-all
\* at RevealAll, reveal-headlines at RevealHeadlines, none at HidePrivate), whatever
\* level actions and idle ticks came before.
C13_BodyCarriesLevelClass ==
    [][GlobalRevealStyleRan =>
          bodyClasses' \cap LevelClasses = LevelClassOf(currentLevel')]_vars

\* a level action has set RevealHeadlines on a view that an earlier run at another
\* level had revealed: the body carries the headline class alone
C13_Witness ==
    /\ op = "setLevel"
    /\ currentLevel = RevealHeadlines
    /\ bodyClasses \cap LevelClasses = {CssRevealHeadlines}
    /\ \E v \in OpenViews :
          /\ revealed[v] > 0
          /\ IsMdViewHeadlinesOnly \in views[v].classes
          /\ Reveal \notin views[v].classes

\* C14: updateLeavesAndGlobalReveals is idempotent on the classes: when a level
\* action has run it, a second run with the level, the settings and the views
\* unchanged leaves the body's classes and every view container's classes as the
\* first run left them.
C14_StyleApplierIdempotent ==
    op = "setLevel" =>
        LET second == updateLeavesAndGlobalReveals(views, revealed, bodyClasses,
                                                   currentLevel, settings)
        IN  /\ second.body = bodyClasses
            /\ \A v \in ViewIds : second.views[v].classes = views[v].classes

\* a level action has just run the applier at HidePrivate over a view it reveals
\* and a view it hides
C14_Witness ==
    /\ op = "setLevel"
    /\ currentLevel = HidePrivate
    /\ ~updateLeavesStyle(views, revealed, currentLevel, settings).throw
    /\ \E v, u \in OpenViews :
          /\ Reveal \in views[v].classes
          /\ Reveal \notin views[u].classes
          /\ IsMdView \in views[u].classes

\* C15: when a level action completes, every open view's container carries the
\* reveal class if and only if shouldRevealLeaf is true for the view at the new
\* level, and the body carries the level class of the new level.
C15_LevelActionLeavesViewsConsistent ==
    [][op' = "setLevel" =>
          /\ \A v \in ViewIds :
                views'[v].state = "open" =>
                   (Reveal \in views'[v].classes
                      <=> shouldRevealLeaf(currentLevel', views'[v], settings') = "true")
          /\ bodyClasses' \cap LevelClasses = LevelClassOf(currentLevel')]_vars

----------------------------------------------------------------------------
(* Claims about the settings tab, checked under SpecSettings *)

\* C16: a change of the startup level, of the private directories or of the
\* private note marker in the settings tab puts the new value into this.settings,
\* and a change of the directories or of the marker re-evaluates the open views
\* against the new value.
C16_SettingsChangeTakesEffect ==
    [][/\ op' = "onChangeBlurOnStartup" =>
              settings'.blurOnStartup # settings.blurOnStartup
       /\ op' = "onChangePrivateDirs" =>
              /\ settings'.privateDirs # settings.privateDirs
              /\ \A v \in ViewIds :
                    views'[v].state = "open" =>
                       (Reveal \in views'[v].classes
                          <=> shouldRevealLeaf(currentLevel', views'[v], settings') = "true")
       /\ op' = "onChangePrivateNoteMarker" =>
              /\ settings'.privateNoteMarker # settings.privateNoteMarker
              /\ \A v \in ViewIds :
                    views'[v].state = "open" =>
                       (Reveal \in views'[v].classes
                          <=> shouldRevealLeaf(currentLevel', views'[v], settings') = "true")
      ]_vars

----------------------------------------------------------------------------
(* Claims about the idle monitor, checked under SpecIdle *)

IdleTimeout == settings.blurOnIdleTimeoutSeconds
TickRan == op' = "checkIdleTimeout"

\* C8: with a timeout T >= 0 and the level not HideAll, a tick that runs when the
\* time since the last recorded input is at least T seconds sets the level to
\* HideAll and re-evaluates all views; a tick that runs earlier leaves the level.
C8_IdleTickThreshold ==
    [][(TickRan /\ IdleTimeout >= 0 /\ currentLevel # HideAll) =>
          IF now - lastEventTime >= IdleTimeout * MsPerSecond
          THEN /\ currentLevel' = HideAll
               /\ BlurAll \in bodyClasses'
               /\ \A v \in ViewIds :
                     views'[v].state = "open" =>
                        /\ Reveal \notin views'[v].classes
                        /\ (IsMdView \in views'[v].classes
                            \/ IsNonMdView \in views'[v].classes)
          ELSE currentLevel' = currentLevel]_vars

\* a tick has forced HideAll under a timeout of one second, the last input being
\* at least a second old, on a view that had been revealed
C8_Witness ==
    /\ op = "checkIdleTimeout"
    /\ idleForced
    /\ IdleTimeout = 1
    /\ now - lastEventTime >= MsPerSecond
    /\ \E v \in OpenViews : revealed[v] > 0 /\ Reveal \notin views[v].classes

\* C9: while the idle timeout is negative, no tick changes the level or any class,
\* and the idle monitor never is what set the level.
C9_DisabledTimeoutNeverHides ==
    [][IdleTimeout < 0 =>
          /\ TickRan => UNCHANGED <<currentLevel, views, bodyClasses, revealed>>
          /\ ~idleForced']_vars

\* a tick ran with the timeout disabled, long after the last input, at a level
\* other than HideAll and with a revealed view
C9_Witness ==
    /\ op = "checkIdleTimeout"
    /\ IdleTimeout < 0
    /\ currentLevel # HideAll
    /\ now - lastEventTime >= MsPerSecond
    /\ \E v \in OpenViews : Reveal \in views[v].classes

\* C10 as claimed: if no input event has been observed since the plugin loaded,
\* the idle tick never forces the level to HideAll.
C10_NoInputNoIdleHide == ~inputSeen => ~idleForced

\* C10 as amended: with no input observed since load, the last event time is the
\* load time, and with a timeout T >= 0 and the level not HideAll a tick forces
\* HideAll exactly when at least T seconds have passed since load.
C10_IdleCountsFromLoad ==
    [][(TickRan /\ ~inputSeen /\ IdleTimeout >= 0 /\ currentLevel # HideAll) =>
          (currentLevel' = HideAll <=> now - LoadTime >= IdleTimeout * MsPerSecond)]_vars

\* a tick has forced HideAll a second after load with no input observed
C10_Witness ==
    /\ op = "checkIdleTimeout"
    /\ idleForced
    /\ ~inputSeen
    /\ IdleTimeout = 1
    /\ now - LoadTime >= MsPerSecond

\* the step is a mousedown or keydown: nothing else writes the last event time
InputEvent == lastEventTime' # lastEventTime \/ inputSeen' # inputSeen

\* C21: once the idle monitor has forced the level to HideAll, and until a level
\* action (or the layout-ready callback) sets the level, an input event changes
\* the last event time only, and the level is HideAll after every input event
\* and every tick: the previous level does not come back by itself.
C21_IdleHidePersistsThroughInput ==
    [][idleForced =>
          /\ currentLevel = HideAll
          /\ InputEvent =>
                UNCHANGED <<currentLevel, views, bodyClasses, revealed, idleForced>>
          /\ (InputEvent \/ TickRan) => currentLevel' = HideAll /\ idleForced'
          /\ currentLevel' # HideAll =>
                (op' = "setLevel" \/ (~layoutReady /\ layoutReady'))]_vars

\* under a timeout of one second a tick has run less than a second after an
\* input event that came after the idle monitor forced HideAll, and the level is
\* still HideAll over a view that had been revealed
C21_Witness ==
    /\ op = "checkIdleTimeout"
    /\ idleForced
    /\ inputSeen
    /\ IdleTimeout = 1
    /\ now - lastEventTime < MsPerSecond
    /\ currentLevel = HideAll
    /\ \E v \in OpenViews : revealed[v] > 0 /\ Reveal \notin views[v].classes

----------------------------------------------------------------------------
(* Claims about the reveal policy, checked under SpecPolicy *)

\* the view the policy was called on, and what the claims say about it
PV == views[1]
Evaluated == op = "shouldRevealLeaf"
AtHidePrivate == Evaluated /\ currentLevel = HidePrivate
MarkerSet == settings.privateNoteMarker # ""
\* a document view with a file and an editor
DocumentView == PV.shape.ownFile /\ PV.shape.editorIn /\ PV.shape.editor /\ PV.file.exists
\* a document view with a file (its editor may not be there)
DocumentViewWithFile == PV.shape.ownFile /\ PV.shape.editorIn /\ PV.file.exists
\* the note's tags, from the body and from the front-matter
NoteTags ==
    ({PV.file.cache.tags[i] : i \in 1..Len(PV.file.cache.tags)}
     \cup {PV.file.cache.fmTags[i] : i \in 1..Len(PV.file.cache.fmTags)}) \ {""}
FolderIsEntry ==
    PV.file.hasParent
    /\ \E i \in 1..Len(split(settings.privateDirs)) :
           split(settings.privateDirs)[i] = PV.file.parentPath

\* C2: at HidePrivate with a non-empty marker, a document view with a file and an
\* editor whose note has at least one tag is revealed exactly when the marker is
\* not among the tags, whatever the folder and the private directories are.
C2_TagsOverrideDirectories ==
    (AtHidePrivate /\ MarkerSet /\ DocumentView /\ NoteTags # {})
        => ret = (IF settings.privateNoteMarker \in NoteTags THEN "false" ELSE "true")

\* C3: at HidePrivate with privateDirs = "fin", a document view of an untagged
\* note in folder "finance" is hidden.
C3_FinHidesFinance ==
    (AtHidePrivate /\ DocumentView /\ NoteTags = {}
     /\ settings.privateDirs = S_fin /\ PV.file.hasParent /\ PV.file.parentPath = S_finance)
        => ret = "false"

\* C4: at HidePrivate, a document view whose note has no tags (or with no marker
\* configured) is hidden when its folder is one of the comma-separated entries of
\* privateDirs and revealed when the folder matches no entry.
C4_DirectoryPolicyByEntry ==
    (AtHidePrivate /\ DocumentViewWithFile /\ PV.file.hasParent
     /\ (NoteTags = {} \/ ~MarkerSet))
        => ret = (IF FolderIsEntry THEN "false" ELSE "true")

\* C5: at HidePrivate with a marker, a document view whose note metadata is missing
\* or partial (no record, no body tags, no front-matter) does not make
\* shouldRevealLeaf fail; with no tags found the result is the directory policy's.
C5_MissingMetadataFallsThrough ==
    (AtHidePrivate /\ MarkerSet /\ DocumentView
     /\ (~PV.file.cache.exists \/ ~PV.file.cache.hasTags \/ ~PV.file.cache.hasFm))
        => /\ ret # "TypeError"
           /\ NoteTags = {} => ret = directoryPolicy(PV, settings)

\* C6: outside HidePrivate the level alone decides: every view is revealed at
\* RevealAll and hidden at HideAll and at RevealHeadlines.
C6_LevelAloneDecides ==
    Evaluated =>
        /\ currentLevel = RevealAll => ret = "true"
        /\ currentLevel \in {HideAll, RevealHeadlines} => ret = "false"

\* a view of a note that the HidePrivate policy reveals was evaluated at
\* RevealHeadlines, and one that it hides was evaluated at RevealAll
C6_Witness ==
    /\ Evaluated
    /\ \/ currentLevel = RevealHeadlines /\ hidePrivatePolicy(PV, settings) = "true"
          /\ ret = "false"
       \/ currentLevel = RevealAll /\ hidePrivatePolicy(PV, settings) = "false"
          /\ ret = "true"

\* C7: at HidePrivate, every view that lacks a file association or lacks an editor
\* association is revealed.
C7_NoFileOrNoEditorRevealed ==
    (AtHidePrivate /\ (~PV.shape.ownFile \/ ~PV.shape.editorIn)) => ret = "true"

====
